---- MODULE Spec2Model ----
(***************************************************************************)
(* LegalBOT-RAG (src/app.py): a Flask application that loads or builds a   *)
(* FAISS index over the PDFs of a data directory at module load, and       *)
(* serves one route, /, whose handler keeps the conversation and the theme *)
(* in browser cookies.                                                     *)
(*                                                                         *)
(* Three specifications over the same variables:                           *)
(*   SpecStartup     module load (load or create the index), restarts      *)
(*   Spec            the route with a browser that waits for each response *)
(*   SpecConcurrent  the route with MaxTabs tabs whose requests overlap    *)
(***************************************************************************)
EXTENDS Integers, Sequences, FiniteSets, TLC

VARIABLES
    dataDir,      \* the files of DATA_DIR
    indexDir,     \* what INDEX_DIR holds on disk
    db,           \* the module global db (in memory)
    pc,           \* "down" before module load, "serving" after it
    starts,       \* number of module loads so far
    builds,       \* number of create_vector_store calls so far
    lastStart,    \* what the last module load did
    jar,          \* the browser's cookie jar
    requests,     \* requests sent and not yet handled
    responses,    \* responses produced and not yet received
    page,         \* what the last received response showed
    qaLog,        \* the (query, result) pairs of the qa_chain runs whose
                  \* response the browser received
    sent          \* number of requests sent so far

vars == <<dataDir, indexDir, db, pc, starts, builds, lastStart,
          jar, requests, responses, page, qaLog, sent>>

----------------------------------------------------------------------------
(* Bounds *)

MaxStarts == 3
MaxRequests == 3
MaxTabs == 2

----------------------------------------------------------------------------
(* Sequences helpers *)

Range(s) == {s[i] : i \in DOMAIN s}

(* Python str.endswith *)
EndsWith(s, suffix) ==
    /\ Len(s) >= Len(suffix)
    /\ SubSeq(s, Len(s) - Len(suffix) + 1, Len(s)) = suffix

----------------------------------------------------------------------------
(* The data directory.  A file has a name (its characters), a format and,  *)
(* when it is a PDF document, the lengths of the texts of its pages.       *)

DotPdf == <<".", "p", "d", "f">>

Files ==
    { [name |-> <<"a">> \o DotPdf,             format |-> "pdf", pages |-> <<600, 600>>],
      [name |-> <<"b">> \o DotPdf,             format |-> "pdf", pages |-> <<400>>],
      [name |-> <<"c", ".", "P", "D", "F">>,   format |-> "pdf", pages |-> <<900, 900, 700>>],
      [name |-> <<"n", ".", "t", "x", "t">>,   format |-> "txt", pages |-> <<>>] }

(* os.listdir returns the entries in arbitrary order *)
Listings(dir) ==
    { l \in [1..Cardinality(dir) -> dir] : \A i, j \in DOMAIN l : l[i] = l[j] => i = j }

chunk_size == 1000
chunk_overlap == 200

(* extract_text_from_pdf: the text is the concatenation of the page texts; *)
(* a text is identified by its file and its length.                        *)
RECURSIVE PagesText(_, _, _)
PagesText(name, pages, text) ==
    IF pages = <<>> THEN text
    ELSE PagesText(name, Tail(pages), [src |-> name, len |-> text.len + Head(pages)])

extract_text_from_pdf(file) ==
    PagesText(file.name, file.pages, [src |-> file.name, len |-> 0])

(* splitter.split_text on a text without separators: windows of chunk_size *)
(* characters, each starting chunk_overlap before the end of the previous. *)
RECURSIVE SplitFrom(_, _)
SplitFrom(text, from) ==
    IF text.len - from <= chunk_size
    THEN IF text.len - from > 0
         THEN << [src |-> text.src, from |-> from, to |-> text.len] >>
         ELSE <<>>
    ELSE << [src |-> text.src, from |-> from, to |-> from + chunk_size] >>
         \o SplitFrom(text, from + chunk_size - chunk_overlap)

split_text(text) == SplitFrom(text, 0)

Document(chunk) == [page_content |-> chunk]

RECURSIVE WrapChunks(_, _)
WrapChunks(all_docs, split_docs) ==
    IF split_docs = <<>> THEN all_docs
    ELSE WrapChunks(Append(all_docs, Document(Head(split_docs))), Tail(split_docs))

(* the loop of create_vector_store over os.listdir(DATA_DIR) *)
RECURSIVE LoopFiles(_, _)
LoopFiles(listing, acc) ==
    IF listing = <<>> THEN acc
    ELSE LET file == Head(listing) IN
         IF EndsWith(file.name, DotPdf)
         THEN LoopFiles(Tail(listing),
                        [docs |-> WrapChunks(acc.docs, split_text(extract_text_from_pdf(file))),
                         read |-> acc.read \cup {file.name}])
         ELSE LoopFiles(Tail(listing), acc)

(* FAISS.from_documents, save_local and load_local *)
NoIndex == [kind |-> "absent"]
CorruptIndex == [kind |-> "corrupt"]
from_documents(all_docs) == [docs |-> all_docs]
save_local(store) == [kind |-> "faiss", docs |-> store.docs]
Loadable(dir) == dir.kind = "faiss"
load_local(dir) == [docs |-> dir.docs]

(* create_vector_store without its db.save_local(INDEX_DIR) *)
create_vector_store_unsaved(listing) ==
    LET acc == LoopFiles(listing, [docs |-> <<>>, read |-> {}])
        store == from_documents(acc.docs)
    IN  [db |-> store, saved |-> NoIndex, read |-> acc.read]

(* create_vector_store, given the listing os.listdir returned *)
create_vector_store(listing) ==
    LET acc == LoopFiles(listing, [docs |-> <<>>, read |-> {}])
        store == from_documents(acc.docs)
    IN  [db |-> store, saved |-> save_local(store), read |-> acc.read]

NoDb == [docs |-> <<>>, none |-> TRUE]

(* FAISS.from_documents is given at least one Document: the directory     *)
(* holds a file the loop reads whose text is not empty                     *)
HasText(dir) ==
    \E f \in dir : /\ EndsWith(f.name, DotPdf)
                   /\ split_text(extract_text_from_pdf(f)) # <<>>

----------------------------------------------------------------------------
(* Module load: try load_local, on any exception create_vector_store       *)

Start ==
    /\ pc = "down"
    /\ starts < MaxStarts
    /\ IF Loadable(indexDir)
       THEN /\ db' = load_local(indexDir)
            /\ lastStart' = [how |-> "loaded", read |-> {}, listing |-> <<>>,
                             found |-> indexDir]
            /\ UNCHANGED <<indexDir, builds>>
       ELSE \E listing \in Listings(dataDir) :
               LET r == create_vector_store(listing) IN
               /\ db' = r.db
               /\ indexDir' = r.saved
               /\ builds' = builds + 1
               /\ lastStart' = [how |-> "built", read |-> r.read, listing |-> listing,
                                found |-> indexDir]
    /\ pc' = "serving"
    /\ starts' = starts + 1
    /\ UNCHANGED <<dataDir, jar, requests, responses, page, qaLog, sent>>

(* the process ends; the index directory stays on disk *)
Stop ==
    /\ pc = "serving"
    /\ pc' = "down"
    /\ db' = NoDb
    /\ UNCHANGED <<dataDir, indexDir, starts, builds, lastStart,
                   jar, requests, responses, page, qaLog, sent>>

(* between runs the operator adds a file to, or removes one from, DATA_DIR *)
AddFile ==
    /\ pc = "down"
    /\ \E f \in Files \ dataDir : dataDir' = dataDir \cup {f}
    /\ UNCHANGED <<indexDir, db, pc, starts, builds, lastStart,
                   jar, requests, responses, page, qaLog, sent>>

RemoveFile ==
    /\ pc = "down"
    /\ \E f \in dataDir : /\ HasText(dataDir \ {f})
                           /\ dataDir' = dataDir \ {f}
    /\ UNCHANGED <<indexDir, db, pc, starts, builds, lastStart,
                   jar, requests, responses, page, qaLog, sent>>

NoStart == [how |-> "none", read |-> {}, listing |-> <<>>, found |-> NoIndex]

----------------------------------------------------------------------------
(* The route /.  Cookies, query arguments and form fields are functions    *)
(* from names to values; a name outside the DOMAIN is absent.              *)

Queries == {"q1", "q2"}
Answers == {"a1", "a2"}
Themes == {"light", "dark"}

NoCookies == <<>>
NoArgs == <<>>
NoForm == <<>>

Entry(role, content) == [role |-> role, content |-> content]

(* json.dumps of a list of {"role": ..., "content": ...}: the text, as its *)
(* tokens                                                                  *)
RECURSIVE DumpEntries(_)
DumpEntries(conversation) ==
    IF conversation = <<>> THEN <<>>
    ELSE <<"{", Head(conversation).role, Head(conversation).content, "}">>
         \o DumpEntries(Tail(conversation))

dumps(conversation) == <<"[">> \o DumpEntries(conversation) \o <<"]">>

(* json.loads of such a text *)
RECURSIVE LoadEntries(_, _)
LoadEntries(text, at) ==
    IF text[at] = "]" THEN <<>>
    ELSE <<Entry(text[at + 1], text[at + 2])>> \o LoadEntries(text, at + 4)

loads(text) == LoadEntries(text, 2)

(* the handler starting every request from conversation = [] *)
ReadConversationFresh(cookies) == <<>>

(* lines 357-361 *)
ReadConversation(cookies) ==
    IF "conversation" \notin DOMAIN cookies
    THEN <<>>
    ELSE loads(cookies["conversation"])

(* line 364: request.cookies.get('theme', 'light') *)
ReadTheme(cookies) ==
    IF "theme" \in DOMAIN cookies THEN cookies["theme"] ELSE "light"

(* the toggle tested by presence ('toggle_theme' in request.args) *)
ToggleRequestedIfPresent(args) == "toggle_theme" \in DOMAIN args

(* line 392: request.args.get('toggle_theme') is truthy *)
ToggleRequested(args) ==
    /\ "toggle_theme" \in DOMAIN args
    /\ args["toggle_theme"] # ""

(* HTML_TEMPLATE as rendered by render_template_string *)
render_template_string(conversation, theme) ==
    [ theme      |-> theme,
      label      |-> IF theme = "light" THEN "Light" ELSE "Dark",
      welcome    |-> conversation = <<>>,
      clear_link |-> conversation # <<>>,
      messages   |-> [i \in DOMAIN conversation |->
                        [class   |-> IF conversation[i].role = "user"
                                     THEN "user-message" ELSE "bot-message",
                         content |-> conversation[i].content]] ]

NoBody == [theme |-> "", label |-> "", welcome |-> FALSE, clear_link |-> FALSE,
           messages |-> <<>>]

(* what one call of qa_chain.run does: returns a result or raises *)
QaOutcomes == [raises : {FALSE}, result : Answers] \cup {[raises |-> TRUE, result |-> ""]}
NoRun == [raises |-> FALSE, result |-> ""]

(* a handler that calls the chain a second time when it raises *)
ErrorResponseRetries(status, chain) ==
    [status |-> status, set_cookies |-> NoCookies, body |-> NoBody,
     chain |-> chain \o chain]

(* an exception leaves the handler: Flask answers with an error page and   *)
(* no Set-Cookie                                                           *)
ErrorResponse(status, chain) ==
    [status |-> status, set_cookies |-> NoCookies, body |-> NoBody, chain |-> chain]

(* the conversation cookie set whatever the method *)
RespondAlwaysStores(req, conversation, theme, chain) ==
    LET response == render_template_string(conversation, theme)
        c1 == "conversation" :> dumps(conversation)
        new_theme == IF theme = "light" THEN "dark" ELSE "light"
        c2 == IF ToggleRequested(req.args)
              THEN ("theme" :> new_theme) @@ c1
              ELSE c1
    IN  [status |-> 200, set_cookies |-> c2, body |-> response, chain |-> chain]

(* lines 378-396 *)
Respond(req, conversation, theme, chain) ==
    LET response == render_template_string(conversation, theme)
        c1 == IF req.method = "POST"
              THEN "conversation" :> dumps(conversation)
              ELSE NoCookies
        new_theme == IF theme = "light" THEN "dark" ELSE "light"
        c2 == IF ToggleRequested(req.args)
              THEN ("theme" :> new_theme) @@ c1
              ELSE c1
    IN  [status |-> 200, set_cookies |-> c2, body |-> response, chain |-> chain]

(* the question replacing the history instead of being appended to it *)
AddUserDropsHistory(conversation, query) == <<Entry("user", query)>>

(* line 370 *)
AddUser(conversation, query) == Append(conversation, Entry("user", query))

(* the answer recorded with the role of the question *)
AddBotAsUser(conversation, result) == Append(conversation, Entry("user", result))

(* line 376 *)
AddBot(conversation, result) == Append(conversation, Entry("bot", result))

(* home(), lines 355-396; qa is what qa_chain.run does if it is called.    *)
(* chain lists the calls made to qa_chain.run.                             *)
home(req, qa) ==
    LET conversation == ReadConversation(req.cookies)
        theme == ReadTheme(req.cookies)
    IN  IF req.method = "POST"
        THEN IF "query" \notin DOMAIN req.form
             THEN ErrorResponse(400, <<>>)
             ELSE LET query == req.form["query"]
                      withUser == AddUser(conversation, query)
                  IN  IF qa.raises
                      THEN ErrorResponse(500, <<query>>)
                      ELSE Respond(req,
                                   AddBot(withUser, qa.result),
                                   theme, <<query>>)
        ELSE Respond(req, conversation, theme, <<>>)

----------------------------------------------------------------------------
(* The browser and the server's request handling *)

Outstanding == Cardinality(requests) + Cardinality(responses)

ToggleArgs == {NoArgs, "toggle_theme" :> "1", "toggle_theme" :> ""}
Forms == {NoForm} \cup {"query" :> q : q \in Queries}

(* the browser sends a request with its current cookies; it sends at most *)
(* total requests and has at most limit of them unanswered                 *)
Send(method, args, form, limit, total) ==
    /\ pc = "serving"
    /\ sent < total
    /\ Outstanding < limit
    /\ requests' = requests \cup
          {[id |-> sent + 1, method |-> method, args |-> args, form |-> form,
            cookies |-> jar]}
    /\ sent' = sent + 1
    /\ UNCHANGED <<dataDir, indexDir, db, pc, starts, builds, lastStart,
                   jar, responses, page, qaLog>>

(* a link (Clear Conversation is href="/", the theme toggle is             *)
(* href="?toggle_theme=1") or a typed URL                                  *)
SendGet(limit, total, argsSet) ==
    \E args \in argsSet : Send("GET", args, NoForm, limit, total)

(* the form posts to the URL of the page, query string included *)
SendPost(limit, total, argsSet, forms) ==
    \E args \in argsSet, form \in forms : Send("POST", args, form, limit, total)

RunsChain(req) == req.method = "POST" /\ "query" \in DOMAIN req.form

(* the server runs home() on one of the requests it has *)
Handle ==
    /\ pc = "serving"
    /\ \E req \in requests :
         \E qa \in (IF RunsChain(req) THEN QaOutcomes ELSE {NoRun}) :
            LET r == home(req, qa) IN
            /\ requests' = requests \ {req}
            /\ responses' = responses \cup
                  {[id |-> req.id, req |-> req, status |-> r.status,
                    set_cookies |-> r.set_cookies, body |-> r.body,
                    chain |-> r.chain, result |-> qa.result]}
    /\ UNCHANGED <<dataDir, indexDir, db, pc, starts, builds, lastStart,
                   jar, page, qaLog, sent>>

(* the browser receives a response: it stores the cookies and shows the page *)
Receive ==
    /\ \E r \in responses :
         /\ responses' = responses \ {r}
         /\ jar' = r.set_cookies @@ jar
         /\ page' = [status |-> r.status, req |-> r.req, body |-> r.body,
                     set_cookies |-> r.set_cookies, chain |-> r.chain,
                     result |-> r.result, jarBefore |-> jar]
         /\ qaLog' = IF r.status = 200 /\ r.chain # <<>>
                     THEN Append(qaLog, [query |-> r.chain[1], result |-> r.result,
                                         cookies |-> r.req.cookies])
                     ELSE qaLog
    /\ UNCHANGED <<dataDir, indexDir, db, pc, starts, builds, lastStart,
                   requests, sent>>

NoRequest == [id |-> 0, method |-> "", args |-> NoArgs, form |-> NoForm,
              cookies |-> NoCookies]
NoPage == [status |-> 0, req |-> NoRequest, body |-> NoBody, set_cookies |-> NoCookies,
           chain |-> <<>>, result |-> "", jarBefore |-> NoCookies]

InitWebIdle ==
    /\ jar = NoCookies
    /\ requests = {}
    /\ responses = {}
    /\ page = NoPage
    /\ qaLog = <<>>
    /\ sent = 0

SavedIndexes ==
    { create_vector_store(l).saved :
         l \in UNION {Listings(d) : d \in {x \in SUBSET Files : HasText(x)}} }

InitStartup ==
    /\ dataDir \in {d \in SUBSET Files : HasText(d)}
    /\ indexDir \in {NoIndex, CorruptIndex} \cup SavedIndexes
    /\ db = NoDb
    /\ pc = "down"
    /\ starts = 0
    /\ builds = 0
    /\ lastStart = NoStart
    /\ InitWebIdle

NextStartup == Start \/ Stop \/ AddFile \/ RemoveFile

SpecStartup == InitStartup /\ [][NextStartup]_vars

(* the module has loaded: the index was built from the data directory *)
InitServing ==
    /\ dataDir = Files
    /\ LET l == CHOOSE x \in Listings(Files) : TRUE
           r == create_vector_store(l) IN
          /\ indexDir = r.saved
          /\ db = r.db
          /\ lastStart = [how |-> "built", read |-> r.read, listing |-> l,
                          found |-> NoIndex]
    /\ pc = "serving"
    /\ starts = 1
    /\ builds = 1
    /\ InitWebIdle

Init == InitServing

Next ==
    \/ SendGet(1, MaxRequests, ToggleArgs)
    \/ SendPost(1, MaxRequests, ToggleArgs, Forms)
    \/ Handle
    \/ Receive

Spec == Init /\ [][Next]_vars

(* MaxTabs tabs of one browser, each sending one request: a link of the    *)
(* page or its form with a question; the requests overlap                  *)
LinkArgs == {NoArgs, "toggle_theme" :> "1"}
QueryForms == {"query" :> q : q \in Queries}

NextConcurrent ==
    \/ SendGet(MaxTabs, MaxTabs, LinkArgs)
    \/ SendPost(MaxTabs, MaxTabs, LinkArgs, QueryForms)
    \/ Handle
    \/ Receive

SpecConcurrent == Init /\ [][NextConcurrent]_vars

----------------------------------------------------------------------------
(* Vocabulary of the properties *)

StoredConversation(cookies) ==
    IF "conversation" \in DOMAIN cookies THEN loads(cookies["conversation"]) ELSE <<>>

BrowserTheme ==
    IF "theme" \in DOMAIN jar THEN jar["theme"] ELSE "light"

Exchange(query, result) == <<Entry("user", query), Entry("bot", result)>>

RECURSIVE History(_)
History(log) ==
    IF log = <<>> THEN <<>>
    ELSE Exchange(Head(log).query, Head(log).result) \o History(Tail(log))

Shown(conversation) ==
    [i \in DOMAIN conversation |->
        [class   |-> IF conversation[i].role = "user" THEN "user-message"
                     ELSE "bot-message",
         content |-> conversation[i].content]]

Alternates(conversation) ==
    /\ Len(conversation) % 2 = 0
    /\ \A i \in DOMAIN conversation :
          conversation[i].role = (IF i % 2 = 1 THEN "user" ELSE "bot")

ShownAlternates(messages) ==
    /\ Len(messages) % 2 = 0
    /\ \A i \in DOMAIN messages :
          messages[i].class = (IF i % 2 = 1 THEN "user-message" ELSE "bot-message")

Opposite(theme) == CHOOSE t \in Themes : t # theme

Raised(r) == r.chain # <<>> /\ r.result = ""

SuccessfulPost(r) == r.status = 200 /\ r.req.method = "POST"

Count(seq, x) == Cardinality({i \in DOMAIN seq : seq[i] = x})

ChunksOf(file) == split_text(extract_text_from_pdf(file))

----------------------------------------------------------------------------
(* C1: with a browser that waits for each response and sends back the      *)
(* cookies it holds, after n successful POSTs the stored conversation      *)
(* cookie and the page rendered for the n-th hold exactly user(q1),        *)
(* bot(a1), ..., user(qn), bot(an), ai being what the chain returned for   *)
(* qi; before the first there is no conversation cookie.                   *)
C1_HistoryMaintained ==
    /\ StoredConversation(jar) = History(qaLog)
    /\ Len(StoredConversation(jar)) = 2 * Len(qaLog)
    /\ ("conversation" \in DOMAIN jar) <=> (qaLog # <<>>)
    /\ SuccessfulPost(page) =>
          /\ page.body.messages = Shown(History(qaLog))
          /\ ~page.body.welcome

C1_Witness ==
    /\ Len(qaLog) = 3
    /\ qaLog[1].query # qaLog[2].query
    /\ qaLog[2].result # qaLog[3].result
    /\ SuccessfulPost(page)
    /\ Len(page.body.messages) = 6

(* C2: the page rendered for the Clear Conversation link, a GET to / with  *)
(* no query string, shows the welcome message and no messages.             *)
C2_ClearLinkClears ==
    (page.status = 200 /\ page.req.method = "GET" /\ page.req.args = NoArgs) =>
        /\ page.body.welcome
        /\ page.body.messages = <<>>

C4_EveryPdfIndexed ==
    lastStart.how = "built" =>
        LET dir == Range(lastStart.listing)
            docs == indexDir.docs
        IN  /\ \A f \in dir : f.format = "pdf" =>
                  \A c \in Range(ChunksOf(f)) : Count(docs, Document(c)) = 1
            /\ \A i \in DOMAIN docs :
                  \E f \in dir : /\ f.format = "pdf"
                                 /\ docs[i].page_content \in Range(ChunksOf(f))

(* C5 as stated: the theme read and stored is always light or dark; every  *)
(* request with a non-empty toggle_theme stores the opposite of the theme  *)
(* it read, every other request sets no theme cookie.                      *)
C5_EveryToggleStores ==
    /\ BrowserTheme \in Themes
    /\ \A req \in requests : ReadTheme(req.cookies) \in Themes
    /\ \A r \in responses :
          IF "toggle_theme" \in DOMAIN r.req.args /\ r.req.args["toggle_theme"] # ""
          THEN /\ "theme" \in DOMAIN r.set_cookies
               /\ r.set_cookies["theme"] = Opposite(ReadTheme(r.req.cookies))
          ELSE "theme" \notin DOMAIN r.set_cookies

(* C5 amended: the theme read and stored is always light or dark; a        *)
(* request with a non-empty toggle_theme that the handler answers (status  *)
(* 200) stores the opposite of the theme it read; a request without it,    *)
(* and a POST that fails, sets no theme cookie.                            *)
C5_AnsweredToggleStores ==
    /\ BrowserTheme \in Themes
    /\ \A req \in requests : ReadTheme(req.cookies) \in Themes
    /\ \A r \in responses :
          /\ "theme" \in DOMAIN r.set_cookies => r.set_cookies["theme"] \in Themes
          /\ IF /\ "toggle_theme" \in DOMAIN r.req.args
                /\ r.req.args["toggle_theme"] # ""
                /\ r.status = 200
             THEN /\ "theme" \in DOMAIN r.set_cookies
                  /\ r.set_cookies["theme"] = Opposite(ReadTheme(r.req.cookies))
                  /\ r.set_cookies["theme"] # ReadTheme(r.req.cookies)
             ELSE "theme" \notin DOMAIN r.set_cookies

C5_Witness ==
    /\ BrowserTheme = "light"
    /\ "theme" \in DOMAIN jar
    /\ page.status = 200
    /\ page.req.method = "POST"
    /\ ToggleRequested(page.req.args)
    /\ "theme" \in DOMAIN page.jarBefore
    /\ page.jarBefore["theme"] = "dark"

C7_RaiseChangesNothing ==
    /\ \A r \in responses : Raised(r) =>
          /\ r.status = 500
          /\ r.set_cookies = NoCookies
          /\ Len(r.chain) = 1
    /\ Raised(page) =>
          /\ page.status = 500
          /\ Len(page.chain) = 1
          /\ jar = page.jarBefore
          /\ \A req \in requests : req.cookies = page.jarBefore
          /\ \A r \in responses : SuccessfulPost(r) =>
                loads(r.set_cookies["conversation"])
                   = StoredConversation(page.jarBefore) \o Exchange(r.chain[1], r.result)

C7_Witness ==
    /\ Raised(page)
    /\ ToggleRequested(page.req.args)
    /\ Len(StoredConversation(jar)) = 2
    /\ \E r \in responses : SuccessfulPost(r)

(* C8 as stated: once two POSTs sent with the same cookies have both been  *)
(* answered, the conversation the browser holds has the exchange of both.  *)
C8_NoExchangeLost ==
    \A i, j \in DOMAIN qaLog :
        (i < j /\ qaLog[i].cookies = qaLog[j].cookies) =>
            \A k \in {i, j} :
                \E n \in DOMAIN StoredConversation(jar) :
                    /\ n < Len(StoredConversation(jar))
                    /\ StoredConversation(jar)[n] = Entry("user", qaLog[k].query)
                    /\ StoredConversation(jar)[n + 1] = Entry("bot", qaLog[k].result)

(* C8 amended: the conversation the browser holds after a successful POST  *)
(* is the conversation that request was sent with followed by its own      *)
(* exchange only; of two POSTs sent with the same cookies, the exchange of *)
(* the one answered last is kept and the store is two entries longer than  *)
(* what both were sent with.                                               *)
C8_LastResponseWins ==
    /\ SuccessfulPost(page) =>
          StoredConversation(jar)
             = StoredConversation(page.req.cookies) \o Exchange(page.chain[1], page.result)
    /\ \A i \in DOMAIN qaLog :
          (i < Len(qaLog) /\ qaLog[i].cookies = qaLog[Len(qaLog)].cookies) =>
             StoredConversation(jar)
                = StoredConversation(qaLog[i].cookies)
                    \o Exchange(qaLog[Len(qaLog)].query, qaLog[Len(qaLog)].result)

C8_Witness ==
    /\ Len(qaLog) = 2
    /\ qaLog[1].cookies = qaLog[2].cookies
    /\ qaLog[1].query # qaLog[2].query
    /\ requests = {}
    /\ responses = {}
    /\ StoredConversation(jar) = Exchange(qaLog[2].query, qaLog[2].result)

(* C9: after every answered request the theme of the rendered page is the  *)
(* theme the browser holds.                                                *)
C9_PageInBrowserTheme ==
    page.status = 200 => page.body.theme = BrowserTheme

(* C10: every conversation stored or rendered has even length and          *)
(* alternates user, bot; a successful POST stores the conversation it      *)
(* found followed by one user entry and one bot entry; nothing else        *)
(* changes the stored conversation.                                        *)
C10_AlternatesAndAppends ==
    /\ Alternates(StoredConversation(jar))
    /\ ShownAlternates(page.body.messages)
    /\ \A r \in responses :
          /\ ShownAlternates(r.body.messages)
          /\ Alternates(StoredConversation(r.set_cookies))
          /\ SuccessfulPost(r) =>
                /\ "conversation" \in DOMAIN r.set_cookies
                /\ loads(r.set_cookies["conversation"])
                      = StoredConversation(jar) \o Exchange(r.chain[1], r.result)
                /\ r.body.messages = Shown(loads(r.set_cookies["conversation"]))
          /\ ~SuccessfulPost(r) => "conversation" \notin DOMAIN r.set_cookies
    /\ IF SuccessfulPost(page)
       THEN StoredConversation(jar)
               = StoredConversation(page.jarBefore) \o Exchange(page.chain[1], page.result)
       ELSE StoredConversation(jar) = StoredConversation(page.jarBefore)

C10_Witness ==
    /\ SuccessfulPost(page)
    /\ Len(StoredConversation(page.jarBefore)) = 2
    /\ Len(StoredConversation(jar)) = 4
    /\ \E r \in responses : SuccessfulPost(r)

====
